---- MODULE Spec2Model ----
(***************************************************************************)
(* A model of package mat64 (NDari/mat64): the Mat object, a row-major     *)
(* two-dimensional array kept in one flat []float64, with its constructors *)
(* and its methods, as written in src/unnamed/part_005 (mat64.go).          *)
(*                                                                         *)
(* A client program holds two variables of type *Mat, "m" and "n", calls   *)
(* the constructors and the methods on them, and is stopped by the first    *)
(* call that ends in os.Exit(1) or in a run-time panic.                     *)
(*                                                                         *)
(* float64 values are modelled as exact extended rationals: rounding is     *)
(* abstracted away, the IEEE-754 special values +Inf, -Inf and NaN are     *)
(* kept (a zero divisor yields them; Go's float division never panics),    *)
(* and the sign of zero is not kept.                                       *)
(***************************************************************************)
EXTENDS Integers, Sequences, FiniteSets, TLC

(***************************************************************************)
(* Bounds of the model.                                                    *)
(***************************************************************************)
\* The dimension arguments of the constructors and of Reshape, and the
\* lengths of the slices handed to the library, range over -1 .. MaxDim.
MaxDim == 3
\* The number of library calls the client program makes.
MaxOps == 3

VARIABLES
    mats,   \* the client's variables: Slot -> [r, c, buf, len] (Mat{r, c, vals})
    heap,   \* backing arrays: BufId -> sequence of float64 (its length is cap)
    call,   \* the last library call, its arguments and how it ended
    ops,    \* number of calls made so far
    caller  \* the slice the client holds: where it is from, and its rows
            \* when it is a [][]float64 (a []float64 is array "d" of heap)

vars == <<mats, heap, call, ops, caller>>

Slots == {"m", "n"}
BufIds == {"m", "n"}
\* The arrays of the heap: those of the Mats and the client's []float64.
HeapIds == BufIds \cup {"d"}

(***************************************************************************)
(* float64                                                                 *)
(***************************************************************************)
Abs(x) == IF x < 0 THEN -x ELSE x
Sign(x) == IF x < 0 THEN -1 ELSE IF x > 0 THEN 1 ELSE 0

RECURSIVE GCD(_, _)
GCD(a, b) == IF b = 0 THEN a ELSE GCD(b, a % b)

\* The float64 with value n/d; d = 0 gives +Inf (n > 0), -Inf (n < 0), NaN (n = 0).
Norm(n, d) ==
    IF d = 0 THEN [n |-> Sign(n), d |-> 0]
    ELSE LET g == GCD(Abs(n), Abs(d))
             s == Sign(d)
         IN  [n |-> (s * n) \div g, d |-> Abs(d) \div g]

F(k) == [n |-> k, d |-> 1]
Zero == F(0)
NaN == [n |-> 0, d |-> 0]
IsNaN(a) == a.d = 0 /\ a.n = 0
IsInf(a) == a.d = 0 /\ a.n # 0

\* a + b
FAdd(a, b) ==
    IF IsInf(a) /\ IsInf(b) THEN (IF a.n = b.n THEN a ELSE NaN)
    ELSE Norm(a.n * b.d + b.n * a.d, a.d * b.d)
\* a - b
FSub(a, b) == FAdd(a, [n |-> -b.n, d |-> b.d])
\* a * b
FMul(a, b) == Norm(a.n * b.n, a.d * b.d)
\* a / b: x/0 is +Inf or -Inf, 0/0 is NaN.
FDiv(a, b) ==
    IF b.n < 0 THEN Norm(-(a.n * b.d), a.d * (-b.n))
    ELSE Norm(a.n * b.d, a.d * b.n)
\* a == b of Go: NaN equals nothing.
FEq(a, b) == ~IsNaN(a) /\ ~IsNaN(b) /\ a = b
\* math.Sqrt(a), kept symbolic: the square root is injective on [0, +Inf].
Sqrt(a) == IF IsNaN(a) \/ a.n < 0 THEN [sqrt |-> NaN] ELSE [sqrt |-> a]

(***************************************************************************)
(* Slices                                                                  *)
(***************************************************************************)
Zeros(k) == [i \in 1..k |-> Zero]
Min(a, b) == IF a < b THEN a ELSE b
Max(a, b) == IF a > b THEN a ELSE b

\* The value of a *Mat variable: its fields, with vals read through the heap.
MV(h, ms, i) ==
    [r |-> ms[i].r, c |-> ms[i].c,
     vals |-> SubSeq(h[ms[i].buf], 1, ms[i].len),
     cap |-> Len(h[ms[i].buf])]

\* The outcome of a call: how it ended, the receiver's (or the new Mat's)
\* fields, whether vals is a newly allocated array, and the returned number.
Res(err, r, c, vals, cap, fresh) ==
    [err |-> err, r |-> r, c |-> c, vals |-> vals, cap |-> cap, fresh |-> fresh]
Ok(m) == Res("ok", m.r, m.c, m.vals, m.cap, FALSE)
\* os.Exit(1) or a panic before the receiver was touched.
Fail(m, kind) == Res(kind, m.r, m.c, m.vals, m.cap, FALSE)

\* make([]float64, len, cap) panics when len < 0 or cap < len.
MakeOk(len, cap) == len >= 0 /\ cap >= len

Empty == [r |-> 0, c |-> 0, vals |-> <<>>, cap |-> 0]

\* A New without the growth reserve: capacity equal to length.
NewNoReserve(dims) ==
    CASE Len(dims) = 0 -> Res("ok", 0, 0, <<>>, 0, TRUE)
      [] Len(dims) = 1 ->
            IF MakeOk(dims[1] * dims[1], dims[1] * dims[1])
            THEN Res("ok", dims[1], dims[1], Zeros(dims[1] * dims[1]), dims[1] * dims[1], TRUE)
            ELSE Fail(Empty, "panic")
      [] Len(dims) = 2 ->
            IF MakeOk(dims[1] * dims[2], dims[1] * dims[2])
            THEN Res("ok", dims[1], dims[2], Zeros(dims[1] * dims[2]), dims[1] * dims[2], TRUE)
            ELSE Fail(Empty, "panic")
      [] Len(dims) = 3 ->
            IF MakeOk(dims[1] * dims[2], dims[3])
            THEN Res("ok", dims[1], dims[2], Zeros(dims[1] * dims[2]), dims[3], TRUE)
            ELSE Fail(Empty, "panic")
      [] OTHER -> Fail(Empty, "InvalidArgument")

\* New(dims...)
New(dims) ==
    CASE Len(dims) = 0 -> Res("ok", 0, 0, <<>>, 0, TRUE)
      [] Len(dims) = 1 ->
            IF MakeOk(dims[1] * dims[1], 2 * dims[1] * dims[1])
            THEN Res("ok", dims[1], dims[1], Zeros(dims[1] * dims[1]),
                     2 * dims[1] * dims[1], TRUE)
            ELSE Fail(Empty, "panic")
      [] Len(dims) = 2 ->
            IF MakeOk(dims[1] * dims[2], 2 * dims[1] * dims[2])
            THEN Res("ok", dims[1], dims[2], Zeros(dims[1] * dims[2]),
                     2 * dims[1] * dims[2], TRUE)
            ELSE Fail(Empty, "panic")
      [] Len(dims) = 3 ->
            IF MakeOk(dims[1] * dims[2], dims[3])
            THEN Res("ok", dims[1], dims[2], Zeros(dims[1] * dims[2]), dims[3], TRUE)
            ELSE Fail(Empty, "panic")
      [] OTHER -> Fail(Empty, "InvalidArgument")

\* The writes m.vals[idx] = val of a loop, in order; ws is a sequence of
\* <<idx, val>> with idx counted from 0. An index outside [0, len) panics
\* and leaves the earlier writes done.
RECURSIVE Store(_, _)
Store(vals, ws) ==
    IF ws = <<>> THEN [ok |-> TRUE, vals |-> vals]
    ELSE LET w == Head(ws) IN
         IF w[1] < 0 \/ w[1] >= Len(vals) THEN [ok |-> FALSE, vals |-> vals]
         ELSE Store([vals EXCEPT ![w[1] + 1] = w[2]], Tail(ws))

RECURSIVE Flatten(_)
Flatten(ss) == IF ss = <<>> THEN <<>> ELSE Head(ss) \o Flatten(Tail(ss))

\* copy(dst, src): copies min(len(dst), len(src)) elements.
CopyInto(dst, src) ==
    [i \in 1..Len(dst) |-> IF i <= Len(src) THEN src[i] ELSE dst[i]]

\* The capacity of the array the run-time's append allocates when the old
\* one (capacity old) cannot hold need elements: doubled, or what is
\* needed, rounded up to the allocator's size classes for 8-byte elements.
GrowCap(old, need) ==
    LET want == IF need > 2 * old THEN need ELSE 2 * old
    IN  IF want <= 4 THEN want ELSE want + (want % 2)

\* append(vals, xs...), vals having capacity cap
GoAppend(vals, cap, xs) ==
    IF Len(vals) + Len(xs) <= cap
    THEN [vals |-> vals \o xs, cap |-> cap, fresh |-> FALSE]
    ELSE [vals |-> vals \o xs, cap |-> GrowCap(cap, Len(vals) + Len(xs)),
          fresh |-> TRUE]

\* The nested loop of FromData that writes v[i][j] to m.vals[i*len(v[0])+j].
NestedWrites(v) ==
    Flatten([i \in 1..Len(v) |->
                [j \in 1..Len(v[i]) |-> <<(i - 1) * Len(v[1]) + (j - 1), v[i][j]>>]])

\* A FromData that takes every []float64 as one row, whatever dims say.
FromData1DAsRow(v, dims) == Res("ok", 1, Len(v), v, Len(v) * 2, TRUE)

\* FromData(v, dims...) for v a []float64
FromData1D(v, dims) ==
    CASE Len(dims) = 0 -> Res("ok", 1, Len(v), v, Len(v) * 2, TRUE)
      [] Len(dims) = 1 ->
            IF dims[1] # Len(v) THEN Fail(Empty, "ShapeMismatch")
            ELSE Res("ok", dims[1], 1, CopyInto(Zeros(dims[1]), v), dims[1] * 2, TRUE)
      [] Len(dims) = 2 ->
            IF dims[1] * dims[2] # Len(v) THEN Fail(Empty, "ShapeMismatch")
            ELSE Res("ok", dims[1], dims[2], CopyInto(Zeros(dims[1] * dims[2]), v),
                     dims[1] * dims[2] * 2, TRUE)
      [] OTHER -> Fail(Empty, "InvalidArgument")

\* FromData(v, dims...) for v a [][]float64
FromData2D(v, dims) ==
    CASE Len(dims) > 2 -> Fail(Empty, "InvalidArgument")
      [] Len(dims) <= 2 /\ Len(v) = 0 -> Fail(Empty, "panic")   \* v[0]
      [] Len(dims) = 0 /\ Len(v) > 0 ->
            LET w == Store(Zeros(Len(v) * Len(v[1])), NestedWrites(v)) IN
            IF w.ok THEN Res("ok", Len(v), Len(v[1]), w.vals, Len(v) * Len(v[1]) * 2, TRUE)
            ELSE Fail(Empty, "panic")
      [] Len(dims) = 1 /\ Len(v) > 0 ->
            IF dims[1] * 2 # Len(v) * Len(v[1]) THEN Fail(Empty, "ShapeMismatch")
            ELSE LET w == Store(Zeros(dims[1] * dims[1]), NestedWrites(v)) IN
                 IF w.ok THEN Res("ok", Len(v), Len(v[1]), w.vals,
                                  dims[1] * dims[1] * 2, TRUE)
                 ELSE Fail(Empty, "panic")
      [] Len(dims) = 2 /\ Len(v) > 0 ->
            IF dims[1] # Len(v) \/ dims[2] # Len(v[1]) THEN Fail(Empty, "ShapeMismatch")
            ELSE LET w == Store(Zeros(dims[1] * dims[2]), NestedWrites(v)) IN
                 IF w.ok THEN Res("ok", Len(v), Len(v[1]), w.vals,
                                  dims[1] * dims[2] * 2, TRUE)
                 ELSE Fail(Empty, "panic")

\* A Reshape that hands the values back in reverse order.
ReshapeReversed(m, rows, cols) ==
    IF rows * cols # m.r * m.c THEN Fail(m, "ShapeMismatch")
    ELSE Res("ok", rows, cols,
             [i \in 1..Len(m.vals) |-> m.vals[Len(m.vals) + 1 - i]], m.cap, FALSE)

\* Reshape(rows, cols)
Reshape(m, rows, cols) ==
    IF rows * cols # m.r * m.c THEN Fail(m, "ShapeMismatch")
    ELSE Res("ok", rows, cols, m.vals, m.cap, FALSE)

\* At(r, c): the element read, or a panic
AtIndex(m, r, c) == r * m.c + c
At(m, r, c) == m.vals[AtIndex(m, r, c) + 1]
\* Set(r, c, val)
SetIndex(m, r, c) == r * m.r + c
Set(m, r, c, val) ==
    LET w == Store(m.vals, << <<SetIndex(m, r, c), val>> >>) IN
    IF w.ok THEN Res("ok", m.r, m.c, w.vals, m.cap, FALSE) ELSE Fail(m, "panic")

\* SetAll(val)
SetAll(m, val) == Res("ok", m.r, m.c, [i \in 1..Len(m.vals) |-> val], m.cap, FALSE)

\* Vals(): a copy of the values
Vals(m) == m.vals

\* A ToSlice that strides the rows by the number of rows.
ToSliceRowStride(m) ==
    IF m.r < 0 \/ (m.r > 0 /\ m.c < 0) THEN [ok |-> FALSE, rows |-> <<>>]
    ELSE IF \E i \in 1..m.r, j \in 1..m.c : (i - 1) * m.r + j > Len(m.vals)
    THEN [ok |-> FALSE, rows |-> <<>>]
    ELSE [ok |-> TRUE,
          rows |-> [i \in 1..m.r |-> [j \in 1..m.c |-> m.vals[(i - 1) * m.r + j]]]]

\* ToSlice(): the rows as a [][]float64, or a panic (make with a negative
\* length, or an index outside vals).
ToSlice(m) ==
    IF m.r < 0 \/ (m.r > 0 /\ m.c < 0) THEN [ok |-> FALSE, rows |-> <<>>]
    ELSE IF \E i \in 1..m.r, j \in 1..m.c : (i - 1) * m.c + j > Len(m.vals)
    THEN [ok |-> FALSE, rows |-> <<>>]
    ELSE [ok |-> TRUE,
          rows |-> [i \in 1..m.r |-> [j \in 1..m.c |-> m.vals[(i - 1) * m.c + j]]]]

\* Foreach(f): f is applied to vals[0 .. r*c-1] in order.
ApplyFn(f, x) ==
    CASE f = "Square" -> FMul(x, x)
      [] f = "Incr" -> FAdd(x, F(1))
Foreach(m, f) ==
    LET k == Min(Max(m.r * m.c, 0), Len(m.vals))
        done == [i \in 1..Len(m.vals) |-> IF i <= k THEN ApplyFn(f, m.vals[i]) ELSE m.vals[i]]
    IN  IF m.r * m.c > Len(m.vals) THEN Res("panic", m.r, m.c, done, m.cap, FALSE)
        ELSE Res("ok", m.r, m.c, done, m.cap, FALSE)

\* A compound assignment done twice over.
AssignedTwice(op, a, b) ==
    CASE op = "Mul" -> FMul(FMul(a, b), b)
      [] op = "Add" -> FAdd(FAdd(a, b), b)
      [] op = "Sub" -> FSub(FSub(a, b), b)
      [] op = "Div" -> FDiv(FDiv(a, b), b)

\* The compound assignment of Mul, Add, Sub and Div: *=, +=, -=, /=.
Assigned(op, a, b) ==
    CASE op = "Mul" -> FMul(a, b)
      [] op = "Add" -> FAdd(a, b)
      [] op = "Sub" -> FSub(a, b)
      [] op = "Div" -> FDiv(a, b)

\* An Elementwise that compares the element counts, not the dims.
ElementwiseByCount(op, m, arg) ==
    CASE arg.kind = "float64" ->
            Res("ok", m.r, m.c, [i \in 1..Len(m.vals) |-> Assigned(op, m.vals[i], arg.x)], m.cap, FALSE)
      [] arg.kind = "Mat" ->
            IF arg.v.r * arg.v.c # m.r * m.c THEN Fail(m, "ShapeMismatch")
            ELSE LET k == Min(Len(m.vals), Len(arg.v.vals))
                     done == [i \in 1..Len(m.vals) |->
                                 IF i <= k THEN Assigned(op, m.vals[i], arg.v.vals[i]) ELSE m.vals[i]]
                 IN  IF k < Len(m.vals) THEN Res("panic", m.r, m.c, done, m.cap, FALSE)
                     ELSE Res("ok", m.r, m.c, done, m.cap, FALSE)
      [] OTHER -> Fail(m, "InvalidArgument")

\* The body shared by Mul, Add, Sub and Div: arg is a float64 or a *Mat.
Elementwise(op, m, arg) ==
    CASE arg.kind = "float64" ->
            Res("ok", m.r, m.c, [i \in 1..Len(m.vals) |-> Assigned(op, m.vals[i], arg.x)], m.cap, FALSE)
      [] arg.kind = "Mat" ->
            IF arg.v.r # m.r \/ arg.v.c # m.c THEN Fail(m, "ShapeMismatch")
            ELSE LET k == Min(Len(m.vals), Len(arg.v.vals))
                     done == [i \in 1..Len(m.vals) |->
                                 IF i <= k THEN Assigned(op, m.vals[i], arg.v.vals[i]) ELSE m.vals[i]]
                 IN  IF k < Len(m.vals) THEN Res("panic", m.r, m.c, done, m.cap, FALSE)
                     ELSE Res("ok", m.r, m.c, done, m.cap, FALSE)
      [] OTHER -> Fail(m, "InvalidArgument")

Mul(m, arg) == Elementwise("Mul", m, arg)
Add(m, arg) == Elementwise("Add", m, arg)
Sub(m, arg) == Elementwise("Sub", m, arg)
Div(m, arg) == Elementwise("Div", m, arg)

RECURSIVE SumSeq(_)
SumSeq(xs) == IF xs = <<>> THEN Zero ELSE FAdd(SumSeq(SubSeq(xs, 1, Len(xs) - 1)), xs[Len(xs)])

\* The indices (from 0) of row slice (axis 0) or of column slice (axis 1).
SliceIdx(m, axis, slice) ==
    IF axis = 0 THEN [i \in 1..m.c |-> slice * m.c + (i - 1)]
    ELSE [i \in 1..m.r |-> (i - 1) * m.c + slice]
InRange(m, idx) == \A k \in 1..Len(idx) : idx[k] >= 0 /\ idx[k] < Len(m.vals)
Pick(m, idx) == [k \in 1..Len(idx) |-> m.vals[idx[k] + 1]]

\* The outcome of a reduction: how it ended and the float64 returned.
Ret(err, x) == [err |-> err, ret |-> x]

\* Argument checks that let a negative index through, as Row and Col do.
ReduceErrWrapped(m, args) ==
    IF Len(args) = 0 THEN "ok"
    ELSE IF Len(args) # 2 THEN "InvalidArgument"
    ELSE IF args[1] = 0 THEN
            (IF args[2] >= m.r \/ args[2] < -m.r THEN "IndexOutOfRange"
             ELSE IF InRange(m, SliceIdx(m, 0, args[2])) THEN "ok" ELSE "panic")
    ELSE IF args[1] = 1 THEN
            (IF args[2] >= m.c \/ args[2] < -m.c THEN "IndexOutOfRange"
             ELSE IF InRange(m, SliceIdx(m, 1, args[2])) THEN "ok" ELSE "panic")
    ELSE "InvalidArgument"

\* The argument checks shared by Sum, Avg, Prd and Std.
ReduceErr(m, args) ==
    IF Len(args) = 0 THEN "ok"
    ELSE IF Len(args) # 2 THEN "InvalidArgument"
    ELSE IF args[1] = 0 THEN
            (IF args[2] >= m.r \/ args[2] < 0 THEN "IndexOutOfRange"
             ELSE IF InRange(m, SliceIdx(m, 0, args[2])) THEN "ok" ELSE "panic")
    ELSE IF args[1] = 1 THEN
            (IF args[2] >= m.c \/ args[2] < 0 THEN "IndexOutOfRange"
             ELSE IF InRange(m, SliceIdx(m, 1, args[2])) THEN "ok" ELSE "panic")
    ELSE "InvalidArgument"

\* The values a reduction runs over.
Selected(m, args) ==
    IF Len(args) = 0 THEN m.vals ELSE Pick(m, SliceIdx(m, args[1], args[2]))

\* At(r, c) as a call: the element read, or the panic of an index outside vals.
AtRead(m, r, c) ==
    IF AtIndex(m, r, c) >= 0 /\ AtIndex(m, r, c) < Len(m.vals)
    THEN Ret("ok", At(m, r, c))
    ELSE Ret("panic", Zero)

\* Sum(args...)
Sum(m, args) ==
    IF ReduceErr(m, args) # "ok" THEN Ret(ReduceErr(m, args), Zero)
    ELSE Ret("ok", SumSeq(Selected(m, args)))

\* Avg(args...)
AvgCount(m, args) ==
    IF Len(args) = 0 THEN Len(m.vals) ELSE IF args[1] = 0 THEN m.c ELSE m.r
Avg(m, args) ==
    IF ReduceErr(m, args) # "ok" THEN Ret(ReduceErr(m, args), Zero)
    ELSE Ret("ok", FDiv(SumSeq(Selected(m, args)), F(AvgCount(m, args))))

\* Prd(args...)
RECURSIVE PrdSeq(_)
PrdSeq(xs) == IF xs = <<>> THEN F(1) ELSE FMul(PrdSeq(SubSeq(xs, 1, Len(xs) - 1)), xs[Len(xs)])
Prd(m, args) ==
    IF ReduceErr(m, args) # "ok" THEN Ret(ReduceErr(m, args), Zero)
    ELSE Ret("ok", PrdSeq(Selected(m, args)))

\* Std(args...)
StdCount(m, args) == Len(m.vals)
Std(m, args) ==
    IF ReduceErr(m, args) # "ok" THEN Ret(ReduceErr(m, args), Zero)
    ELSE LET avg == Avg(m, args).ret
             xs == Selected(m, args)
             sq == [k \in 1..Len(xs) |-> FMul(FSub(avg, xs[k]), FSub(avg, xs[k]))]
         IN  Ret("ok", Sqrt(FDiv(SumSeq(sq), F(StdCount(m, args)))))

\* The predicates passed to All and Any.
PredHolds(p, x) ==
    CASE p = "Positive" -> ~IsNaN(x) /\ x.n > 0
      [] p = "Negative" -> ~IsNaN(x) /\ x.n < 0

\* What All and Any return, and how many times they called the predicate.
Verdict(b, calls) == [ok |-> b, calls |-> calls]

\* All(f)
All(m, p) ==
    IF \E i \in 1..Len(m.vals) : ~PredHolds(p, m.vals[i])
    THEN Verdict(FALSE, CHOOSE i \in 1..Len(m.vals) :
                            /\ ~PredHolds(p, m.vals[i])
                            /\ \A j \in 1..(i - 1) : PredHolds(p, m.vals[j]))
    ELSE Verdict(TRUE, Len(m.vals))

\* Any(f) (Any is an operator of TLC)
GoAny(m, p) ==
    IF \E i \in 1..Len(m.vals) : PredHolds(p, m.vals[i])
    THEN Verdict(TRUE, CHOOSE i \in 1..Len(m.vals) :
                           /\ PredHolds(p, m.vals[i])
                           /\ \A j \in 1..(i - 1) : ~PredHolds(p, m.vals[j]))
    ELSE Verdict(FALSE, Len(m.vals))

\* The outcome of a call that builds a Mat with New(r, c) and then fills it
\* by the writes ws.
Built(r, c, ws) ==
    LET n == New(<<r, c>>) IN
    IF n.err # "ok" THEN n
    ELSE LET w == Store(n.vals, ws) IN
         IF w.ok THEN Res("ok", r, c, w.vals, n.cap, TRUE) ELSE Fail(Empty, "panic")

\* The reads m.vals[idx] of a loop all fall inside vals.
ReadsOk(m, idxs) == \A k \in 1..Len(idxs) : idxs[k] >= 0 /\ idxs[k] < Len(m.vals)

\* A Col whose negative index counts from the first column, not the last.
ColIdxFromFront(m, x) == [k \in 1..m.r |-> (k - 1) * m.c + (IF x >= 0 THEN x ELSE -x - 1)]

\* Col(x)
ColIdx(m, x) == [k \in 1..m.r |-> IF x >= 0 THEN (k - 1) * m.c + x
                                  ELSE (k - 1) * m.c + (m.c + x)]
Col(m, x) ==
    IF x >= m.c \/ x < -m.c THEN Fail(Empty, "IndexOutOfRange")
    ELSE IF ~ReadsOk(m, ColIdx(m, x)) THEN Fail(Empty, "panic")
    ELSE Built(m.r, 1, [k \in 1..m.r |-> <<k - 1, m.vals[ColIdx(m, x)[k] + 1]>>])

\* Row(x)
RowIdx(m, x) == [k \in 1..m.c |-> IF x >= 0 THEN x * m.c + (k - 1)
                                  ELSE (m.r + x) * m.c + (k - 1)]
Row(m, x) ==
    IF x >= m.r \/ x < -m.r THEN Fail(Empty, "IndexOutOfRange")
    ELSE IF ~ReadsOk(m, RowIdx(m, x)) THEN Fail(Empty, "panic")
    ELSE Built(1, m.c, [k \in 1..m.c |-> <<k - 1, m.vals[RowIdx(m, x)[k] + 1]>>])

\* Equals(n)
Equals(m, n) ==
    /\ m.r = n.r
    /\ m.c = n.c
    /\ \A i \in 1..(m.r * m.c) : FEq(m.vals[i], n.vals[i])

\* Copy()
Copy(m) ==
    LET n == New(<<m.r, m.c>>) IN
    IF n.err # "ok" THEN n
    ELSE Res("ok", m.r, m.c, CopyInto(n.vals, m.vals), n.cap, TRUE)

\* A T that swaps the dims and keeps the values in the order they have.
TKeepOrder(m) ==
    Built(m.c, m.r, [k \in 1..Min(Len(m.vals), m.r * m.c) |-> <<k - 1, m.vals[k]>>])

\* T()
TIdx(m) == Flatten([i \in 1..m.c |-> [j \in 1..m.r |-> (j - 1) * m.c + (i - 1)]])
T(m) ==
    IF ~ReadsOk(m, TIdx(m)) /\ New(<<m.c, m.r>>).err = "ok" THEN Fail(Empty, "panic")
    ELSE Built(m.c, m.r, [k \in 1..Len(TIdx(m)) |-> <<k - 1, m.vals[TIdx(m)[k] + 1]>>])

\* Dot(n)
DotAt(m, n, i, j) ==
    SumSeq([k \in 1..m.c |-> FMul(m.vals[(i - 1) * m.c + k], n.vals[(k - 1) * n.c + j])])
DotReads(m, n) ==
    \A i \in 1..m.r, j \in 1..n.c, k \in 1..m.c :
        (i - 1) * m.c + k <= Len(m.vals) /\ (k - 1) * n.c + j <= Len(n.vals)
Dot(m, n) ==
    IF m.c # n.r THEN Fail(Empty, "ShapeMismatch")
    ELSE IF New(<<m.r, n.c>>).err # "ok" THEN New(<<m.r, n.c>>)
    ELSE IF ~DotReads(m, n) THEN Fail(Empty, "panic")
    ELSE Built(m.r, n.c,
               Flatten([i \in 1..m.r |->
                           [j \in 1..n.c |-> <<(i - 1) * n.c + (j - 1), DotAt(m, n, i, j)>>]]))

\* The loop of AppendCol and Concat that writes q[i][j] to m.vals[i*m.c+j]
\* for i < rows, j < cols.
Restride(q, rows, cols) ==
    Flatten([i \in 1..rows |-> [j \in 1..cols |-> <<(i - 1) * cols + (j - 1), q[i][j]>>]])

\* An AppendCol that appends v to the buffer and leaves the rows where they
\* were.
AppendColNoRestride(m, v) ==
    IF m.r # Len(v) THEN Fail(m, "ShapeMismatch")
    ELSE LET a == GoAppend(m.vals, m.cap, v)
         IN  Res("ok", m.r, m.c + 1, a.vals, a.cap, a.fresh)

\* AppendCol(v)
AppendCol(m, v) ==
    IF m.r # Len(v) THEN Fail(m, "ShapeMismatch")
    ELSE IF ~ToSlice(m).ok THEN Fail(m, "panic")
    ELSE LET q == [i \in 1..m.r |-> ToSlice(m).rows[i] \o <<v[i]>>]
             a == GoAppend(m.vals, m.cap, v)
             w == Store(a.vals, Restride(q, m.r, m.c + 1))
         IN  Res(IF w.ok THEN "ok" ELSE "panic", m.r, m.c + 1, w.vals, a.cap, a.fresh)

\* AppendRow(v)
AppendRowCap(m, v) == Len(m.vals) + Len(v) * 2
AppendRow(m, v) ==
    IF m.c # Len(v) THEN Fail(m, "ShapeMismatch")
    ELSE IF m.cap < Len(m.vals) + Len(v)
    THEN Res("ok", m.r + 1, m.c, m.vals \o v, AppendRowCap(m, v), TRUE)
    ELSE Res("ok", m.r + 1, m.c, m.vals \o v, m.cap, FALSE)

\* A Concat that appends n's values before it compares the rows.
ConcatAppendFirst(m, n) ==
    LET a == GoAppend(m.vals, m.cap, Vals(n)) IN
    IF m.r # n.r THEN Res("ShapeMismatch", m.r, m.c, a.vals, a.cap, a.fresh)
    ELSE IF ~ToSlice(m).ok \/ ~ToSlice(n).ok THEN Fail(m, "panic")
    ELSE LET q == [i \in 1..m.r |-> ToSlice(m).rows[i] \o ToSlice(n).rows[i]]
             w == Store(a.vals, Restride(q, m.r, m.c + n.c))
         IN  Res(IF w.ok THEN "ok" ELSE "panic", m.r, m.c + n.c, w.vals, a.cap, a.fresh)

\* Concat(n)
Concat(m, n) ==
    IF m.r # n.r THEN Fail(m, "ShapeMismatch")
    ELSE IF ~ToSlice(m).ok \/ ~ToSlice(n).ok THEN Fail(m, "panic")
    ELSE LET a == GoAppend(m.vals, m.cap, Vals(n))
             q == [i \in 1..m.r |-> ToSlice(m).rows[i] \o ToSlice(n).rows[i]]
             w == Store(a.vals, Restride(q, m.r, m.c + n.c))
         IN  Res(IF w.ok THEN "ok" ELSE "panic", m.r, m.c + n.c, w.vals, a.cap, a.fresh)

(***************************************************************************)
(* FromCSV: the file is the sequence of its records, each a sequence of     *)
(* fields, each field a sequence of characters.                            *)
(***************************************************************************)
DigitVal(ch) ==
    CASE ch = "0" -> 0 [] ch = "1" -> 1 [] ch = "2" -> 2 [] ch = "3" -> 3
      [] ch = "4" -> 4 [] ch = "5" -> 5 [] ch = "6" -> 6 [] ch = "7" -> 7
      [] ch = "8" -> 8 [] ch = "9" -> 9 [] OTHER -> -1

RECURSIVE ParseDigits(_)
ParseDigits(s) ==
    IF s = <<>> THEN 0 ELSE 10 * ParseDigits(SubSeq(s, 1, Len(s) - 1)) + DigitVal(s[Len(s)])

\* strconv.ParseFloat on decimal integer literals; anything else is an error.
ParseFloat(s) ==
    LET body == IF s # <<>> /\ s[1] = "-" THEN Tail(s) ELSE s IN
    IF body = <<>> \/ \E i \in 1..Len(body) : DigitVal(body[i]) < 0
    THEN [ok |-> FALSE, x |-> Zero]
    ELSE [ok |-> TRUE,
          x |-> F(IF s[1] = "-" THEN -ParseDigits(body) ELSE ParseDigits(body))]

\* The loop of FromCSV over the records left, appending one parsed row each
\* time round; cols is the number of fields of the first record.
RECURSIVE ReadRows(_, _, _, _)
ReadRows(vals, cap, recs, cols) ==
    IF recs = <<>> THEN [err |-> "ok", vals |-> vals, cap |-> cap]
    ELSE LET rec == Head(recs) IN
         IF Len(rec) # cols THEN [err |-> "FormatError", vals |-> vals, cap |-> cap]
         ELSE IF \E i \in 1..Len(rec) : ~ParseFloat(rec[i]).ok
         THEN [err |-> "FormatError", vals |-> vals, cap |-> cap]
         ELSE LET a == GoAppend(vals, cap, [i \in 1..Len(rec) |-> ParseFloat(rec[i]).x])
              IN  ReadRows(a.vals, a.cap, Tail(recs), cols)

\* FromCSV(filename)
FromCSV(file) ==
    IF ~file.exists \/ file.recs = <<>> THEN Fail(Empty, "IOError")
    ELSE LET rd == ReadRows(<<>>, 0, file.recs, Len(file.recs[1])) IN
         IF rd.err # "ok" THEN Fail(Empty, rd.err)
         ELSE Res("ok", Len(file.recs), Len(file.recs[1]), rd.vals, rd.cap, TRUE)

(***************************************************************************)
(* The client's variables and the heap                                     *)
(***************************************************************************)
\* The client's own array, handed out in place of a new one.
CallerArray(k) == "d"

\* The array of the other Mat, handed out in place of a new one.
OtherArray(k) == mats[CHOOSE j \in Slots : j # k].buf

\* A backing array no other variable refers to: what make and a growing
\* append return.
FreshBuf(k) ==
    IF \A j \in Slots \ {k} : mats[j].buf # k THEN k
    ELSE CHOOSE b \in BufIds : \A j \in Slots \ {k} : mats[j].buf # b

\* Arrays no variable refers to are collected.
Collect(h, ms) ==
    [b \in HeapIds |-> IF b = "d" \/ \E j \in Slots : ms[j].buf = b THEN h[b] ELSE <<>>]

\* The variables after the Mat of outcome res is stored in (or is, for a
\* method that works in place) variable k.
MatsAfter(k, res) ==
    [mats EXCEPT ![k] = [r |-> res.r, c |-> res.c,
                         buf |-> IF res.fresh THEN FreshBuf(k) ELSE mats[k].buf,
                         len |-> Len(res.vals)]]
HeapAfter(k, res) ==
    LET b == IF res.fresh THEN FreshBuf(k) ELSE mats[k].buf
        rest == IF res.fresh THEN Zeros(res.cap - Len(res.vals))
                ELSE SubSeq(heap[b], Len(res.vals) + 1, Len(heap[b]))
    IN  Collect([heap EXCEPT ![b] = res.vals \o rest], MatsAfter(k, res))

Called(op, tgt, src, args, data, err, ret) ==
    [op |-> op, tgt |-> tgt, src |-> src, args |-> args, data |-> data,
     err |-> err, ret |-> ret]

\* The program is running: no call has ended it, and it has calls left.
Running == call.err = "ok" /\ ops < MaxOps

\* k = <constructor or method returning a new Mat>: on failure the program
\* ends and k is not assigned.
Assign(k, res) ==
    /\ mats' = IF res.err = "ok" THEN MatsAfter(k, res) ELSE mats
    /\ heap' = IF res.err = "ok" THEN HeapAfter(k, res) ELSE heap
    /\ ops' = ops + 1
    /\ UNCHANGED caller

\* The slice the client holds: made by the client ("literal") or returned
\* by Vals or ToSlice; rows is empty unless it is a [][]float64.
Holds(from, rows) == [from |-> from, rows |-> rows]

\* k = FromData(v, dims...): as Assign, and the client holds v, which is
\* flat (a []float64, array "d") or rows (a [][]float64).
AssignFrom(k, res, flat, rows) ==
    /\ mats' = IF res.err = "ok" THEN MatsAfter(k, res) ELSE mats
    /\ heap' = [(IF res.err = "ok" THEN HeapAfter(k, res) ELSE heap) EXCEPT !["d"] = flat]
    /\ ops' = ops + 1
    /\ caller' = Holds("literal", rows)

\* k.<method working in place>: what the method did to the receiver stays
\* done, also when it panicked half way.
InPlace(k, res) ==
    /\ mats' = MatsAfter(k, res)
    /\ heap' = HeapAfter(k, res)
    /\ ops' = ops + 1
    /\ UNCHANGED caller

\* A method that only reads.
ReadOnly ==
    /\ UNCHANGED <<mats, heap, caller>>
    /\ ops' = ops + 1

M(k) == MV(heap, mats, k)

Init ==
    /\ mats = [k \in Slots |-> [r |-> 0, c |-> 0, buf |-> k, len |-> 0]]
    /\ heap = [b \in HeapIds |-> <<>>]
    /\ call = Called("start", "m", "m", <<>>, <<>>, "ok", Zero)
    /\ ops = 0
    /\ caller = Holds("none", <<>>)

(***************************************************************************)
(* What the client passes to the library                                   *)
(***************************************************************************)
Iota(k) == [i \in 1..k |-> F(i)]
Grid(p, q) == [i \in 1..p |-> [j \in 1..q |-> F((i - 1) * q + j)]]

\* Arguments of New: none, one, two (also zero and negative), three (with a
\* capacity that fits and one that does not), four.
NewDims ==
    {<<>>, <<-1>>, <<2>>, <<0, 2>>, <<2, 3>>, <<3, 2>>, <<2, -1>>,
     <<2, 2, 4>>, <<2, 2, 3>>, <<1, 1, 1, 1>>}
\* The ints passed to FromData after the data.
DataDims ==
    {<<>>, <<2>>, <<3>>, <<4>>, <<2, 2>>, <<2, 3>>, <<3, 2>>, <<-2, -3>>, <<1, 1, 1>>}
FlatData == {Iota(0), Iota(4), Iota(6), <<F(1), NaN>>}
NestedData == {<<>>, Grid(1, 2), Grid(2, 2), Grid(2, 3), Grid(3, 2)}
Files ==
    { [exists |-> FALSE, recs |-> <<>>],
      [exists |-> TRUE, recs |-> << << <<"7">> >> >>],
      [exists |-> TRUE, recs |-> << << <<"1">>, <<"-", "2">> >>, << <<"3">>, <<"4", "0">> >> >>],
      [exists |-> TRUE, recs |-> << << <<"1">>, <<"2">> >>, << <<"3">> >> >>],
      [exists |-> TRUE, recs |-> << << <<"1">>, <<"x">> >> >>],
      [exists |-> TRUE, recs |-> << << <<"1">> >>, << <<"2">> >>, << <<"3">> >> >>] }
Scalars == {F(0), F(2)}
SetVals == {F(7)}
\* The slices passed to AppendRow and AppendCol.
AppData == {[i \in 1..k |-> F(b + i)] : k \in 0..MaxDim, b \in {10, 20}}
ReshapeDims ==
    {<<2, 3>>, <<3, 2>>, <<1, 6>>, <<6, 1>>, <<2, 2>>, <<1, 4>>, <<-2, -3>>, <<0, 0>>, <<3, 3>>,
     <<-1, 0>>}
\* Row and column indices, in range and out of it.
IndexArgs == -1..MaxDim
SignedIndexArgs == (-MaxDim)..MaxDim
Fns == {"Square", "Incr"}
Operands ==
    {[kind |-> "float64", x |-> x] : x \in Scalars}
    \cup {[kind |-> "Mat", v |-> M(j), slot |-> j] : j \in Slots}
    \cup {[kind |-> "int"]}
StdArgs ==
    {<<>>, <<0>>, <<0, 0>>, <<0, 1>>, <<1, 0>>, <<1, 2>>, <<0, -1>>, <<1, 3>>, <<2, 0>>}
\* The (r, c) passed to At: cells, and indices outside the rows or the cols.
AtArgs == {<<0, 0>>, <<1, 2>>, <<0, 3>>, <<2, 0>>, <<-1, 0>>, <<3, 3>>}

\* The arguments of Prd: a row, a column, and the argument lists it refuses.
\* The product of a whole Mat is left out, it leaves the range of int.
PrdArgs == StdArgs \ {<<>>}
Preds == {"Positive", "Negative"}

OperandSlot(arg) == IF arg.kind = "Mat" THEN arg.slot ELSE "-"
OperandData(arg) == IF arg.kind = "float64" THEN <<arg.x>> ELSE <<>>

Ctors == {"New", "FromData1D", "FromData2D", "FromCSV"}
\* The client builds m, then perhaps n, and then calls methods.
MayConstruct(k) ==
    IF k = "m" THEN call.op = "start"
    ELSE (call.op \in Ctors /\ call.tgt = "m") \/ call.op = "ToSlice"
\* What the client writes into a slice it holds.
WriteVals == {F(9)}

(***************************************************************************)
(* The calls                                                               *)
(***************************************************************************)
CallNew(k, dims) ==
    /\ Running
    /\ MayConstruct(k)
    /\ Assign(k, New(dims))
    /\ call' = Called("New", k, "-", dims, <<>>, New(dims).err, Zero)

CallFromData1D(k, v, dims) ==
    /\ Running
    /\ MayConstruct(k)
    /\ AssignFrom(k, FromData1D(v, dims), v, <<>>)
    /\ call' = Called("FromData1D", k, "-", dims, v, FromData1D(v, dims).err, Zero)

CallFromData2D(k, v, dims) ==
    /\ Running
    /\ MayConstruct(k)
    /\ AssignFrom(k, FromData2D(v, dims), <<>>, v)
    /\ call' = Called("FromData2D", k, "-", dims, v, FromData2D(v, dims).err, Zero)

CallFromCSV(k, file) ==
    /\ Running
    /\ MayConstruct(k)
    /\ Assign(k, FromCSV(file))
    /\ call' = Called("FromCSV", k, "-", <<>>, file.recs, FromCSV(file).err, Zero)

CallCopy(k, i) ==
    /\ Running
    /\ Assign(k, Copy(M(i)))
    /\ call' = Called("Copy", k, i, <<>>, <<>>, Copy(M(i)).err, Zero)

CallT(k, i) ==
    /\ Running
    /\ Assign(k, T(M(i)))
    /\ call' = Called("T", k, i, <<>>, <<>>, T(M(i)).err, Zero)

CallDot(k, i, j) ==
    /\ Running
    /\ Assign(k, Dot(M(i), M(j)))
    /\ call' = Called("Dot", k, i, <<>>, <<j>>, Dot(M(i), M(j)).err, Zero)

CallRow(k, i, x) ==
    /\ Running
    /\ Assign(k, Row(M(i), x))
    /\ call' = Called("Row", k, i, <<x>>, <<>>, Row(M(i), x).err, Zero)

CallCol(k, i, x) ==
    /\ Running
    /\ Assign(k, Col(M(i), x))
    /\ call' = Called("Col", k, i, <<x>>, <<>>, Col(M(i), x).err, Zero)

CallReshape(k, rows, cols) ==
    /\ Running
    /\ InPlace(k, Reshape(M(k), rows, cols))
    /\ call' = Called("Reshape", k, "-", <<rows, cols>>, <<>>, Reshape(M(k), rows, cols).err, Zero)

CallSet(k, r, c, val) ==
    /\ Running
    /\ InPlace(k, Set(M(k), r, c, val))
    /\ call' = Called("Set", k, "-", <<r, c>>, <<val>>, Set(M(k), r, c, val).err, Zero)

CallSetAll(k, val) ==
    /\ Running
    /\ InPlace(k, SetAll(M(k), val))
    /\ call' = Called("SetAll", k, "-", <<>>, <<val>>, "ok", Zero)

CallForeach(k, f) ==
    /\ Running
    /\ InPlace(k, Foreach(M(k), f))
    /\ call' = Called("Foreach", k, "-", <<>>, <<f>>, Foreach(M(k), f).err, Zero)

CallMul(k, arg) ==
    /\ Running
    /\ InPlace(k, Mul(M(k), arg))
    /\ call' = Called("Mul", k, OperandSlot(arg), <<>>, OperandData(arg), Mul(M(k), arg).err, Zero)

CallAdd(k, arg) ==
    /\ Running
    /\ InPlace(k, Add(M(k), arg))
    /\ call' = Called("Add", k, OperandSlot(arg), <<>>, OperandData(arg), Add(M(k), arg).err, Zero)

CallSub(k, arg) ==
    /\ Running
    /\ InPlace(k, Sub(M(k), arg))
    /\ call' = Called("Sub", k, OperandSlot(arg), <<>>, OperandData(arg), Sub(M(k), arg).err, Zero)

CallDiv(k, arg) ==
    /\ Running
    /\ InPlace(k, Div(M(k), arg))
    /\ call' = Called("Div", k, OperandSlot(arg), <<>>, OperandData(arg), Div(M(k), arg).err, Zero)

CallStd(k, args) ==
    /\ Running
    /\ ReadOnly
    /\ call' = Called("Std", k, "-", args, <<>>, Std(M(k), args).err, Std(M(k), args).ret)

CallAt(k, r, c) ==
    /\ Running
    /\ ReadOnly
    /\ call' = Called("At", k, "-", <<r, c>>, <<>>, AtRead(M(k), r, c).err, AtRead(M(k), r, c).ret)

CallAvg(k, args) ==
    /\ Running
    /\ ReadOnly
    /\ call' = Called("Avg", k, "-", args, <<>>, Avg(M(k), args).err, Avg(M(k), args).ret)

CallPrd(k, args) ==
    /\ Running
    /\ ReadOnly
    /\ call' = Called("Prd", k, "-", args, <<>>, Prd(M(k), args).err, Prd(M(k), args).ret)

CallAll(k, p) ==
    /\ Running
    /\ ReadOnly
    /\ call' = Called("All", k, "-", <<>>, <<p>>, "ok", All(M(k), p))

CallAny(k, p) ==
    /\ Running
    /\ ReadOnly
    /\ call' = Called("Any", k, "-", <<>>, <<p>>, "ok", GoAny(M(k), p))

CallSum(k, args) ==
    /\ Running
    /\ ReadOnly
    /\ call' = Called("Sum", k, "-", args, <<>>, Sum(M(k), args).err, Sum(M(k), args).ret)

\* s := k.Vals(): the client holds the copy.
CallVals(k) ==
    /\ Running
    /\ UNCHANGED mats
    /\ heap' = [heap EXCEPT !["d"] = Vals(M(k))]
    /\ ops' = ops + 1
    /\ caller' = Holds("Vals", <<>>)
    /\ call' = Called("Vals", k, "-", <<>>, <<>>, "ok", Zero)

\* s := k.ToSlice(): the client holds the rows.
CallToSlice(k) ==
    /\ Running
    /\ UNCHANGED mats
    /\ heap' = [heap EXCEPT !["d"] = <<>>]
    /\ ops' = ops + 1
    /\ caller' = IF ToSlice(M(k)).ok THEN Holds("ToSlice", ToSlice(M(k)).rows) ELSE caller
    /\ call' = Called("ToSlice", k, "-", <<>>, <<>>,
                      IF ToSlice(M(k)).ok THEN "ok" ELSE "panic", Zero)

\* s[i] = x on the []float64 the client holds (i counted from 0).
WriteFlat(i, x) ==
    /\ Running
    /\ caller.from \in {"literal", "Vals"}
    /\ i < Len(heap["d"])
    /\ UNCHANGED <<mats, caller>>
    /\ heap' = [heap EXCEPT !["d"][i + 1] = x]
    /\ ops' = ops + 1
    /\ call' = Called("WriteFlat", "-", "-", <<i>>, <<x>>, "ok", Zero)

\* s[i][j] = x on the [][]float64 the client holds.
WriteRows(i, j, x) ==
    /\ Running
    /\ caller.from \in {"literal", "ToSlice"}
    /\ i < Len(caller.rows)
    /\ j < Len(caller.rows[i + 1])
    /\ UNCHANGED <<mats, heap>>
    /\ caller' = [caller EXCEPT !.rows[i + 1][j + 1] = x]
    /\ ops' = ops + 1
    /\ call' = Called("WriteRows", "-", "-", <<i, j>>, <<x>>, "ok", Zero)

CallAppendRow(k, v) ==
    /\ Running
    /\ InPlace(k, AppendRow(M(k), v))
    /\ call' = Called("AppendRow", k, "-", <<>>, v, AppendRow(M(k), v).err, Zero)

CallAppendCol(k, v) ==
    /\ Running
    /\ InPlace(k, AppendCol(M(k), v))
    /\ call' = Called("AppendCol", k, "-", <<>>, v, AppendCol(M(k), v).err, Zero)

CallConcat(k, j) ==
    /\ Running
    /\ InPlace(k, Concat(M(k), M(j)))
    /\ call' = Called("Concat", k, j, <<>>, <<>>, Concat(M(k), M(j)).err, Zero)

Next ==
    \/ \E k \in Slots, dims \in NewDims : CallNew(k, dims)
    \/ \E k \in Slots, v \in FlatData, dims \in DataDims : CallFromData1D(k, v, dims)
    \/ \E k \in Slots, v \in NestedData, dims \in DataDims : CallFromData2D(k, v, dims)
    \/ \E k \in Slots, file \in Files : CallFromCSV(k, file)
    \/ \E i \in Slots : CallCopy("n", i)
    \/ \E i \in Slots : CallT("n", i)
    \/ \E i \in Slots, j \in Slots : CallDot("n", i, j)
    \/ \E i \in Slots, x \in SignedIndexArgs : CallRow("n", i, x)
    \/ \E i \in Slots, x \in SignedIndexArgs : CallCol("n", i, x)
    \/ \E k \in Slots, d \in ReshapeDims : CallReshape(k, d[1], d[2])
    \/ \E k \in Slots, r \in IndexArgs, c \in IndexArgs, val \in SetVals : CallSet(k, r, c, val)
    \/ \E k \in Slots, val \in Scalars : CallSetAll(k, val)
    \/ \E k \in Slots, f \in Fns : CallForeach(k, f)
    \/ \E k \in Slots, arg \in Operands : CallMul(k, arg)
    \/ \E k \in Slots, arg \in Operands : CallAdd(k, arg)
    \/ \E k \in Slots, arg \in Operands : CallSub(k, arg)
    \/ \E k \in Slots, arg \in Operands : CallDiv(k, arg)
    \/ \E k \in Slots, args \in StdArgs : CallStd(k, args)
    \/ \E k \in Slots, args \in StdArgs : CallSum(k, args)
    \/ \E k \in Slots, p \in Preds : CallAll(k, p)
    \/ \E k \in Slots, p \in Preds : CallAny(k, p)
    \/ \E k \in Slots, args \in StdArgs : CallAvg(k, args)
    \/ \E k \in Slots, args \in PrdArgs : CallPrd(k, args)
    \/ \E k \in Slots, rc \in AtArgs : CallAt(k, rc[1], rc[2])
    \/ \E k \in Slots : CallVals(k)
    \/ \E k \in Slots : CallToSlice(k)
    \/ (call.op = "ToSlice" /\ CallFromData2D("n", caller.rows, <<>>))
    \/ \E x \in WriteVals : WriteFlat(0, x)
    \/ \E x \in WriteVals : WriteRows(0, 0, x)
    \/ \E k \in Slots, v \in AppData : CallAppendRow(k, v)
    \/ \E k \in Slots, v \in AppData : CallAppendCol(k, v)
    \/ \E k \in Slots, j \in Slots : CallConcat(k, j)

Spec == Init /\ [][Next]_vars

(***************************************************************************)
(* Properties                                                              *)
(***************************************************************************)
\* The Mat of variable k after the step.
After(k) == MV(heap', mats', k)
\* (r, c) names a cell of m.
InBounds(m, r, c) == r >= 0 /\ r < m.r /\ c >= 0 /\ c < m.c
HasZero(m) == \E i \in 1..Len(m.vals) : m.vals[i] = Zero
ArithOps == {"Add", "Sub", "Mul", "Div"}
Arith(op, a, b) ==
    CASE op = "Add" -> FAdd(a, b)
      [] op = "Sub" -> FSub(a, b)
      [] op = "Mul" -> FMul(a, b)
      [] op = "Div" -> FDiv(a, b)
\* The population standard deviation of xs, count being its length.
PopStd(xs, count) ==
    LET mean == FDiv(SumSeq(xs), F(count))
        sq == [k \in 1..Len(xs) |-> FMul(FSub(mean, xs[k]), FSub(mean, xs[k]))]
    IN  Sqrt(FDiv(SumSeq(sq), F(count)))
RowOf(m, i) == [j \in 1..m.c |-> At(m, i, j - 1)]

\* C1: every Mat holds exactly rows * cols values, whatever calls were made.
C1_ShapeInvariant == \A k \in Slots : mats[k].len = mats[k].r * mats[k].c

\* C2: Set(r, c, v) on a cell of the Mat succeeds and changes the value at
\* linear index r*cols + c to v and nothing else.
C2_SetWritesCell ==
    [][(call'.op = "Set" /\ InBounds(M(call'.tgt), call'.args[1], call'.args[2]))
        => /\ call'.err = "ok"
           /\ After(call'.tgt) =
                [M(call'.tgt) EXCEPT
                    !.vals[AtIndex(M(call'.tgt), call'.args[1], call'.args[2]) + 1] =
                        call'.data[1]]]_vars

\* C3: Add, Sub, Mul and Div with a Mat operand of the receiver's rows and
\* cols succeed, leave the receiver's dims alone, set every value to
\* old op other at the same linear index, and leave a different operand
\* Mat as it was.
C3_ElementwiseInPlace ==
    [][(/\ call'.op \in ArithOps
        /\ call'.src \in Slots
        /\ M(call'.src).r = M(call'.tgt).r
        /\ M(call'.src).c = M(call'.tgt).c)
        => /\ call'.err = "ok"
           /\ After(call'.tgt).r = M(call'.tgt).r
           /\ After(call'.tgt).c = M(call'.tgt).c
           /\ Len(After(call'.tgt).vals) = Len(M(call'.tgt).vals)
           /\ \A i \in 1..Len(M(call'.tgt).vals) :
                /\ i <= Len(M(call'.src).vals)
                /\ After(call'.tgt).vals[i] =
                     Arith(call'.op, M(call'.tgt).vals[i], M(call'.src).vals[i])
           /\ (call'.src # call'.tgt => After(call'.src) = M(call'.src))]_vars

\* C4: Div by a Mat of the receiver's dims that holds a zero fails with
\* DivisionByZero and leaves the receiver as it was, also when the divisor is
\* the receiver.
C4_DivByZeroRejected ==
    [][(/\ call'.op = "Div"
        /\ call'.src \in Slots
        /\ M(call'.src).r = M(call'.tgt).r
        /\ M(call'.src).c = M(call'.tgt).c
        /\ HasZero(M(call'.src)))
        => /\ call'.err = "DivisionByZero"
           /\ After(call'.tgt) = M(call'.tgt)]_vars

\* C5: Std(axis, index) returns the population standard deviation of the
\* slice, dividing by the slice's length (cols for axis 0, rows for axis 1);
\* Std() divides by rows * cols.
C5_StdOverSlice ==
    [][(call'.op = "Std" /\ call'.err = "ok")
        => call'.ret =
             IF Len(call'.args) = 0
             THEN PopStd(M(call'.tgt).vals, M(call'.tgt).r * M(call'.tgt).c)
             ELSE PopStd(Selected(M(call'.tgt), call'.args),
                         IF call'.args[1] = 0 THEN M(call'.tgt).c ELSE M(call'.tgt).r)]_vars

\* C6: AppendRow(values) with len(values) = cols succeeds, adds one to rows,
\* keeps cols and every value stored before, and makes values the last row,
\* which Row(old rows) returns. (The statement for k successive calls follows
\* from this one by induction on k.)
C6_AppendRow ==
    [][(call'.op = "AppendRow" /\ Len(call'.data) = M(call'.tgt).c)
        => /\ call'.err = "ok"
           /\ After(call'.tgt).r = M(call'.tgt).r + 1
           /\ After(call'.tgt).c = M(call'.tgt).c
           /\ SubSeq(After(call'.tgt).vals, 1, Len(M(call'.tgt).vals)) = M(call'.tgt).vals
           /\ \A i \in 0..(M(call'.tgt).r - 1), j \in 0..(M(call'.tgt).c - 1) :
                At(After(call'.tgt), i, j) = At(M(call'.tgt), i, j)
           /\ Row(After(call'.tgt), M(call'.tgt).r).err = "ok"
           /\ Row(After(call'.tgt), M(call'.tgt).r).vals = call'.data]_vars

\* C7: AppendCol(values) with len(values) = rows succeeds, adds one to cols,
\* keeps rows, and for every row i keeps At(i, j) for j < old cols and makes
\* At(i, old cols) = values[i], with and without spare capacity.
C7_AppendCol ==
    [][(call'.op = "AppendCol" /\ Len(call'.data) = M(call'.tgt).r)
        => /\ call'.err = "ok"
           /\ After(call'.tgt).r = M(call'.tgt).r
           /\ After(call'.tgt).c = M(call'.tgt).c + 1
           /\ \A i \in 0..(M(call'.tgt).r - 1) :
                /\ \A j \in 0..(M(call'.tgt).c - 1) :
                     At(After(call'.tgt), i, j) = At(M(call'.tgt), i, j)
                /\ At(After(call'.tgt), i, M(call'.tgt).c) = call'.data[i + 1]]_vars

\* C7 happens: the full 2x2 Mat read from a file (capacity 4) after two
\* AppendCol calls, the first reallocating, the second using the spare room.
C7_AppendColTwice ==
    /\ call.op = "AppendCol"
    /\ call.err = "ok"
    /\ ops = 3
    /\ M(call.tgt).r = 2
    /\ M(call.tgt).c = 4
    /\ M(call.tgt).vals = <<F(1), F(-2), F(11), F(21), F(3), F(40), F(12), F(22)>>

\* C8: Concat(other) with other.rows = rows succeeds, keeps rows, makes cols
\* the sum of both, makes every row the old row followed by other's row, and
\* leaves a different other Mat as it was.
C8_Concat ==
    [][(call'.op = "Concat" /\ M(call'.src).r = M(call'.tgt).r)
        => /\ call'.err = "ok"
           /\ After(call'.tgt).r = M(call'.tgt).r
           /\ After(call'.tgt).c = M(call'.tgt).c + M(call'.src).c
           /\ \A i \in 0..(M(call'.tgt).r - 1) :
                RowOf(After(call'.tgt), i) = RowOf(M(call'.tgt), i) \o RowOf(M(call'.src), i)
           /\ (call'.src # call'.tgt => After(call'.src) = M(call'.src))]_vars

\* C9: Reshape(newRows, newCols) with newRows * newCols = rows * cols
\* succeeds, sets rows and cols to the new values and leaves the buffer, its
\* values, their order and its capacity, as it was.
C9_Reshape ==
    [][(/\ call'.op = "Reshape"
        /\ call'.args[1] * call'.args[2] = M(call'.tgt).r * M(call'.tgt).c)
        => /\ call'.err = "ok"
           /\ After(call'.tgt).r = call'.args[1]
           /\ After(call'.tgt).c = call'.args[2]
           /\ Vals(After(call'.tgt)) = Vals(M(call'.tgt))
           /\ After(call'.tgt).cap = M(call'.tgt).cap]_vars

\* C9 happens: six values built with other dims, reshaped to 6x1.
C9_Reshaped ==
    /\ call.op = "Reshape"
    /\ call.err = "ok"
    /\ call.args = <<6, 1>>
    /\ ops = 2
    /\ M(call.tgt).r = 6
    /\ M(call.tgt).c = 1
    /\ M(call.tgt).vals = Iota(6)

\* The precondition of a shape-changing call is violated.
ShapeOps == {"Reshape", "AppendRow", "AppendCol", "Concat"}
BadShape(c) ==
    CASE c.op = "Reshape" -> c.args[1] * c.args[2] # M(c.tgt).r * M(c.tgt).c
      [] c.op = "AppendRow" -> Len(c.data) # M(c.tgt).c
      [] c.op = "AppendCol" -> Len(c.data) # M(c.tgt).r
      [] c.op = "Concat" -> M(c.src).r # M(c.tgt).r

\* C10: Reshape, AppendRow, AppendCol and Concat called with a violated
\* precondition fail with ShapeMismatch and leave the receiver's rows, cols,
\* values and capacity as they were.
C10_ShapeMismatchNoMutation ==
    [][(call'.op \in ShapeOps /\ BadShape(call'))
        => /\ call'.err = "ShapeMismatch"
           /\ After(call'.tgt) = M(call'.tgt)]_vars

\* C10 happens: Concat of Mats with different rows onto a receiver that
\* holds values.
C10_ConcatRejected ==
    /\ call.op = "Concat"
    /\ call.err = "ShapeMismatch"
    /\ M(call.tgt).r # M(call.src).r
    /\ Len(M(call.tgt).vals) > 0

\* C11: FromData(s, a) and FromData(s, a, b) on nested data s, with positive
\* dims, succeed exactly when a*a (a*b) is the number of values of s, and
\* then give an a x a (a x b) Mat holding the values of s in row-major
\* order; every other choice of dims fails with ShapeMismatch.
C11_NestedExplicitDims ==
    [][(/\ call'.op = "FromData2D"
        /\ Len(call'.data) > 0
        /\ Len(call'.args) \in {1, 2}
        /\ \A i \in 1..Len(call'.args) : call'.args[i] > 0)
        => LET a == call'.args[1]
               b == call'.args[Len(call'.args)]
           IN  IF a * b = Len(Flatten(call'.data))
               THEN /\ call'.err = "ok"
                    /\ After(call'.tgt).r = a
                    /\ After(call'.tgt).c = b
                    /\ After(call'.tgt).vals = Flatten(call'.data)
               ELSE call'.err = "ShapeMismatch"]_vars

\* C12: FromData(v) on a flat v gives a 1 x len(v) Mat, FromData(v, a) an
\* a x 1 Mat when a = len(v), FromData(v, a, b) an a x b Mat when
\* a*b = len(v), each holding v element for element; a violated requirement
\* or more than two dims fails and leaves every Mat variable as it was.
C12_FlatConstruction ==
    [][(call'.op = "FromData1D")
        => LET v == call'.data
               d == call'.args
               accepted == \/ Len(d) = 0
                           \/ Len(d) = 1 /\ d[1] = Len(v)
                           \/ Len(d) = 2 /\ d[1] * d[2] = Len(v)
           IN  IF accepted
               THEN /\ call'.err = "ok"
                    /\ After(call'.tgt).r = (IF Len(d) = 0 THEN 1 ELSE d[1])
                    /\ After(call'.tgt).c =
                         (IF Len(d) = 0 THEN Len(v) ELSE IF Len(d) = 1 THEN 1 ELSE d[2])
                    /\ After(call'.tgt).vals = v
               ELSE /\ call'.err # "ok"
                    /\ \A k \in Slots : After(k) = M(k)]_vars

\* C12 happens: six flat values built as a 2x3 Mat.
C12_FlatAs2x3 ==
    /\ call.op = "FromData1D"
    /\ call.err = "ok"
    /\ call.args = <<2, 3>>
    /\ M(call.tgt).r = 2
    /\ M(call.tgt).c = 3
    /\ M(call.tgt).vals = Iota(6)

\* The methods that work on the receiver, and the client's writes.
InPlaceOps ==
    {"Reshape", "Set", "SetAll", "Foreach", "Mul", "Add", "Sub", "Div",
     "AppendRow", "AppendCol", "Concat"}
WriteOps == {"WriteFlat", "WriteRows"}
\* The slice the client holds is as it was.
SliceKept == heap'["d"] = heap["d"] /\ caller' = caller

\* C13: a Mat built by FromData shares nothing with the data it was built
\* from: a write to the data the client passed changes no Mat, and a method
\* changing a Mat changes nothing of that data.
C13_NoAliasOfCallerData ==
    [][(caller.from = "literal")
        => /\ (call'.op \in WriteOps => \A k \in Slots : After(k) = M(k))
           /\ (call'.op \in InPlaceOps => SliceKept)]_vars

\* C13 happens: after FromData(v) the client wrote v[0] = 9 and the Mat
\* still holds 1, 2, 3, 4.
C13_DataWritten ==
    /\ call.op = "WriteFlat"
    /\ caller.from = "literal"
    /\ heap["d"] = <<F(9), F(2), F(3), F(4)>>
    /\ M("m").vals = Iota(4)

\* C14: what Copy, Row, Col, Vals and ToSlice return shares nothing with
\* the source: the call leaves the source as it was (when the result goes
\* to another variable than the source's), a method changing one
\* Mat changes no other Mat and nothing of a slice got from Vals or ToSlice,
\* and a write to such a slice changes no Mat.
C14_ResultsIndependent ==
    [][/\ (call'.op \in {"Copy", "Row", "Col"} /\ call'.src # call'.tgt
            => After(call'.src) = M(call'.src))
       /\ (call'.op \in {"Vals", "ToSlice"} => \A k \in Slots : After(k) = M(k))
       /\ (call'.op \in InPlaceOps
            => \A j \in Slots \ {call'.tgt} : After(j) = M(j))
       /\ (caller.from \in {"Vals", "ToSlice"}
            => /\ (call'.op \in WriteOps => \A k \in Slots : After(k) = M(k))
               /\ (call'.op \in InPlaceOps => SliceKept))]_vars

\* C14 happens: n is the Copy of the 2x2 Mat read from a file (capacity 8,
\* where the file's Mat has 4), one was added to each value of n, and m
\* holds what it held.
C14_CopyChanged ==
    /\ call.op = "Foreach"
    /\ call.tgt = "n"
    /\ ops = 3
    /\ M("n").cap = 8
    /\ M("n").vals = <<F(2), F(-1), F(4), F(41)>>
    /\ M("m").vals = <<F(1), F(-2), F(3), F(40)>>

\* C15: T() succeeds and returns a Mat of dims (cols, rows) whose value at
\* (j, i) is the source's at (i, j), for every cell (i, j) of the source; the
\* source is as it was.
C15_Transpose ==
    [][(call'.op = "T")
        => /\ call'.err = "ok"
           /\ After(call'.tgt).r = M(call'.src).c
           /\ After(call'.tgt).c = M(call'.src).r
           /\ \A i \in 0..(M(call'.src).r - 1), j \in 0..(M(call'.src).c - 1) :
                At(After(call'.tgt), j, i) = At(M(call'.src), i, j)
           /\ (call'.src # call'.tgt => After(call'.src) = M(call'.src))]_vars

\* C15 happens: the 2x3 Mat of 1..6 and its transpose.
C15_Transposed2x3 ==
    /\ call.op = "T"
    /\ call.src = "m"
    /\ M("m").r = 2
    /\ M("m").c = 3
    /\ M("m").vals = Iota(6)
    /\ M("n").r = 3
    /\ M("n").c = 2
    /\ M("n").vals = <<F(1), F(4), F(2), F(5), F(3), F(6)>>

\* C16: n := m.T() followed by n = n.T() succeeds and leaves n.Equals(m)
\* true, for every Mat m.
C16_TransposeInvolution ==
    [][(/\ call.op = "T" /\ call.src = "m" /\ call.tgt = "n"
        /\ call'.op = "T" /\ call'.src = "n" /\ call'.tgt = "n")
        => /\ call'.err = "ok"
           /\ Equals(After("n"), M("m"))]_vars


\* Row i of a times column j of b, summed over a's columns in order.
RowTimesCol(a, b, i, j) ==
    SumSeq([k \in 1..a.c |-> FMul(At(a, i, k - 1), At(b, k - 1, j))])

\* C17: Dot fails with ShapeMismatch when the receiver's cols differ from the
\* other's rows; otherwise it returns a rows x other.cols Mat whose value at
\* (i, j) is the sum over k of self(i, k) * other(k, j); both operands are as
\* they were, also when the other is the receiver.
C17_Dot ==
    [][(call'.op = "Dot")
        => LET a == M(call'.src)
               b == M(call'.data[1])
           IN  /\ IF a.c # b.r THEN call'.err = "ShapeMismatch"
                  ELSE /\ call'.err = "ok"
                       /\ After(call'.tgt).r = a.r
                       /\ After(call'.tgt).c = b.c
                       /\ \A i \in 0..(a.r - 1), j \in 0..(b.c - 1) :
                            At(After(call'.tgt), i, j) = RowTimesCol(a, b, i, j)
               /\ (call'.src # call'.tgt => After(call'.src) = a)
               /\ (call'.data[1] # call'.tgt => After(call'.data[1]) = b)]_vars

\* The elements of column j, and the rows*cols elements in row-major order.
ColOf(m, j) == [i \in 1..m.r |-> At(m, i - 1, j)]
AllOf(m) == [k \in 1..(m.r * m.c) |-> m.vals[k]]

\* C18: Sum(0, i) is the sum of the elements of row i and Sum(1, j) that of
\* column j, for every row i and column j of the Mat; Sum() is the sum of all
\* rows*cols elements; Sum leaves the Mat as it was.
C18_Sum ==
    [][(call'.op = "Sum")
        => LET m == M(call'.tgt)
               args == call'.args
           IN  /\ (args = <<>>
                     => call'.err = "ok" /\ call'.ret = SumSeq(AllOf(m)))
               /\ (Len(args) = 2 /\ args[1] = 0 /\ args[2] >= 0 /\ args[2] < m.r
                     => call'.err = "ok" /\ call'.ret = SumSeq(RowOf(m, args[2])))
               /\ (Len(args) = 2 /\ args[1] = 1 /\ args[2] >= 0 /\ args[2] < m.c
                     => call'.err = "ok" /\ call'.ret = SumSeq(ColOf(m, args[2])))
               /\ After(call'.tgt) = m]_vars

\* The column and the row an index in range selects.
Wrapped(x, size) == IF x >= 0 THEN x ELSE size + x

\* C19: Col(x) succeeds exactly for -cols <= x < cols and then returns a
\* rows x 1 Mat whose k-th value is the source's at (k, x) for x >= 0 and at
\* (k, cols + x) for x < 0, the same values as Col(cols + x); Row(x) succeeds
\* exactly for -rows <= x < rows and returns the 1 x cols Mat of that row; any
\* other index ends in IndexOutOfRange.
C19_ColRow ==
    [][(call'.op \in {"Col", "Row"})
        => LET m == M(call'.src)
               x == call'.args[1]
               v == After(call'.tgt)
           IN  /\ (call'.op = "Col" =>
                     IF x >= -m.c /\ x < m.c
                     THEN /\ call'.err = "ok"
                          /\ v.r = m.r
                          /\ v.c = 1
                          /\ \A k \in 0..(m.r - 1) : At(v, k, 0) = At(m, k, Wrapped(x, m.c))
                          /\ (x < 0 => v.vals = Col(m, m.c + x).vals)
                     ELSE call'.err = "IndexOutOfRange")
               /\ (call'.op = "Row" =>
                     IF x >= -m.r /\ x < m.r
                     THEN /\ call'.err = "ok"
                          /\ v.r = 1
                          /\ v.c = m.c
                          /\ \A k \in 0..(m.c - 1) : At(v, 0, k) = At(m, Wrapped(x, m.r), k)
                          /\ (x < 0 => v.vals = Row(m, m.r + x).vals)
                     ELSE call'.err = "IndexOutOfRange")]_vars

\* C19 happens: Col(-1) of the 2x3 Mat of 1..6 is its last column.
C19_LastCol ==
    /\ call.op = "Col"
    /\ call.src = "m"
    /\ call.args = <<-1>>
    /\ call.err = "ok"
    /\ M("m").r = 2
    /\ M("m").c = 3
    /\ M("m").vals = Iota(6)
    /\ M("n").r = 2
    /\ M("n").c = 1
    /\ M("n").vals = <<F(3), F(6)>>

\* s := k.ToSlice() was the last call and FromData(s) is this one.
RoundTrip ==
    /\ call.op = "ToSlice"
    /\ call'.op = "FromData2D"
    /\ call'.args = <<>>
    /\ call'.data = caller.rows
    /\ M(call.tgt).r >= 1
    /\ M(call.tgt).c >= 1
\* The Mat built has the dims of m and Equals(m) is true.
SameAs(n, m) == n.r = m.r /\ n.c = m.c /\ Equals(n, m)
NoNaN(m) == \A i \in 0..(m.r - 1), j \in 0..(m.c - 1) : ~IsNaN(At(m, i, j))

\* C20 as stated: for every Mat m with rows >= 1 and cols >= 1, FromData of
\* m.ToSlice() succeeds, has the dims of m, and Equals(m) is true.
C20_RoundTripAnyMat ==
    [][RoundTrip
        => call'.err = "ok" /\ SameAs(After(call'.tgt), M(call.tgt))]_vars

\* C20: for every Mat m with rows >= 1 and cols >= 1 and no NaN among its
\* elements, FromData of m.ToSlice() succeeds, has the dims of m, and
\* Equals(m) is true.
C20_RoundTrip ==
    [][RoundTrip /\ NoNaN(M(call.tgt))
        => call'.err = "ok" /\ SameAs(After(call'.tgt), M(call.tgt))]_vars

\* C20 happens: n was built from the rows ToSlice returned for m, a Mat of
\* two rows or more that no literal of the client equals.
C20_RoundTripDone ==
    /\ call.op = "FromData2D"
    /\ call.tgt = "n"
    /\ call.args = <<>>
    /\ call.err = "ok"
    /\ call.data \notin NestedData
    /\ M("m").r >= 2
    /\ M("m").c >= 2
    /\ NoNaN(M("m"))
    /\ ToSlice(M("m")).ok
    /\ call.data = ToSlice(M("m")).rows
    /\ SameAs(M("n"), M("m"))

\* The fields New(dims...) is to give: rows, cols and capacity, for one, two
\* and three arguments.
NewRows(dims) == dims[1]
NewCols(dims) == IF Len(dims) = 1 THEN dims[1] ELSE dims[2]
NewCap(dims) == IF Len(dims) = 3 THEN dims[3] ELSE 2 * NewRows(dims) * NewCols(dims)
\* The Mat k after the step has these dims, this length and capacity, and
\* holds zeros only.
IsZeroMat(k, r, c, len, cap) ==
    /\ call'.err = "ok"
    /\ After(k).r = r
    /\ After(k).c = c
    /\ Len(After(k).vals) = len
    /\ After(k).cap = cap
    /\ \A i \in 1..len : After(k).vals[i] = Zero

C22_DimsNonNegative ==
    \A k \in Slots :
        /\ mats[k].r >= 0
        /\ mats[k].c >= 0
        /\ (mats[k].r = 0 \/ mats[k].c = 0 => mats[k].len = 0)

\* C23: Add, Sub, Mul and Div with a Mat operand whose rows or cols differ
\* from the receiver's end in ShapeMismatch, also when the two hold the same
\* number of elements, and the receiver is as it was.
C23_ShapeMismatch ==
    [][(/\ call'.op \in ArithOps
        /\ call'.src \in Slots
        /\ (M(call'.src).r # M(call'.tgt).r \/ M(call'.src).c # M(call'.tgt).c))
        => /\ call'.err = "ShapeMismatch"
           /\ After(call'.tgt) = M(call'.tgt)
           /\ mats' = mats]_vars

\* C23 happens: a 3x2 operand refused by a 2x3 receiver.
C23_Refused2x3By3x2 ==
    /\ call.op \in ArithOps
    /\ call.tgt = "m"
    /\ call.src = "n"
    /\ call.err = "ShapeMismatch"
    /\ M("m").r = 2
    /\ M("m").c = 3
    /\ M("n").r = 3
    /\ M("n").c = 2
    /\ Len(M("m").vals) = Len(M("n").vals)

\* C24: At(r, c) and Set(r, c, v) with r outside [0, rows) or c outside
\* [0, cols) end in IndexOutOfRange, also when r*cols + c lies inside the
\* buffer, and such a Set changes no element.
C24_IndexChecked ==
    [][(/\ call'.op \in {"At", "Set"}
        /\ ~InBounds(M(call'.tgt), call'.args[1], call'.args[2]))
        => /\ call'.err = "IndexOutOfRange"
           /\ After(call'.tgt) = M(call'.tgt)]_vars

Reductions == {"Sum", "Avg", "Prd", "Std"}

\* C25: Sum, Avg, Prd and Std with (axis, index) end in InvalidArgument when
\* axis is neither 0 nor 1 and in IndexOutOfRange when index is outside
\* [0, rows) for axis 0 or [0, cols) for axis 1, a negative index included;
\* with one argument or more than two they fail; a call that fails leaves the
\* Mat as it was and the program does not go on with a value.
C25_ReductionArgs ==
    [][(call'.op \in Reductions)
        => LET m == M(call'.tgt)
               args == call'.args
           IN  /\ (Len(args) \notin {0, 2} => call'.err # "ok")
               /\ (Len(args) = 2 /\ args[1] \notin {0, 1} => call'.err = "InvalidArgument")
               /\ (Len(args) = 2 /\ args[1] = 0 /\ (args[2] < 0 \/ args[2] >= m.r)
                     => call'.err = "IndexOutOfRange")
               /\ (Len(args) = 2 /\ args[1] = 1 /\ (args[2] < 0 \/ args[2] >= m.c)
                     => call'.err = "IndexOutOfRange")
               /\ (call'.err # "ok" => After(call'.tgt) = m /\ mats' = mats /\ ~Running')]_vars

\* C25 happens: a reduction over row -1 of a 2x3 Mat was refused.
C25_NegativeIndexRefused ==
    /\ call.op \in Reductions
    /\ call.tgt = "m"
    /\ call.args = <<0, -1>>
    /\ call.err = "IndexOutOfRange"
    /\ M("m").r = 2
    /\ M("m").c = 3

\* The places (from 1, row-major) of the elements where p holds, and where
\* it does not.
Passing(m, p) == {i \in 1..Len(AllOf(m)) : PredHolds(p, AllOf(m)[i])}
Failing(m, p) == {i \in 1..Len(AllOf(m)) : ~PredHolds(p, AllOf(m)[i])}

\* C26: All(p) is true iff p holds for every element, and calls p on no
\* element after the first where p fails; Any(p) is true iff p holds for some
\* element, and calls p on no element after the first where it holds; on a
\* Mat without elements All is true and Any is false.
C26_AllAny ==
    [][(call'.op \in {"All", "Any"})
        => LET m == M(call'.tgt)
               p == call'.data[1]
           IN  /\ call'.err = "ok"
               /\ (call'.op = "All" =>
                     /\ call'.ret.ok = (Failing(m, p) = {})
                     /\ \A i \in Failing(m, p) : call'.ret.calls <= i)
               /\ (call'.op = "Any" =>
                     /\ call'.ret.ok = (Passing(m, p) # {})
                     /\ \A i \in Passing(m, p) : call'.ret.calls <= i)
               /\ (AllOf(m) = <<>> => call'.ret.ok = (call'.op = "All"))]_vars

\* The cells of m.
Cells(m) == {rc \in (0..(m.r - 1)) \X (0..(m.c - 1)) : TRUE}
IsFinite(x) == x.d # 0
\* k.Op(k): the operand is the receiver.
SelfOp == call'.op \in ArithOps /\ call'.src = call'.tgt
\* What the claim gives for an element x of m under m.Op(m).
SelfValue(op, x) ==
    CASE op = "Add" -> FMul(F(2), x)
      [] op = "Mul" -> FMul(x, x)
      [] op = "Sub" -> Zero
      [] op = "Div" -> F(1)

C28_CSVCapacityIsLength ==
    [][(call'.op = "FromCSV" /\ call'.err = "ok")
        => /\ Len(After(call'.tgt).vals) = After(call'.tgt).r * After(call'.tgt).c
           /\ After(call'.tgt).cap = After(call'.tgt).r * After(call'.tgt).c]_vars

\* C29: when AppendRow finds capacity < length + cols, the new buffer's
\* capacity is twice the new length; when the capacity suffices the buffer
\* is kept and its capacity is as it was.
C29_AppendRowDoubles ==
    [][(call'.op = "AppendRow" /\ call'.err = "ok")
        => LET m == M(call'.tgt)
               need == Len(m.vals) + m.c
           IN  IF m.cap < need
               THEN After(call'.tgt).cap = 2 * need
               ELSE /\ After(call'.tgt).cap = m.cap
                    /\ mats'[call'.tgt].buf = mats[call'.tgt].buf]_vars

\* C30: m.Concat(m) succeeds and leaves a Mat with the rows it had and twice
\* the cols, every row being the old row followed by the old row again, and
\* holding rows * (2*cols) values.
C30_ConcatWithSelf ==
    [][(call'.op = "Concat" /\ call'.src = call'.tgt)
        => LET m == M(call'.tgt) IN
           /\ call'.err = "ok"
           /\ After(call'.tgt).r = m.r
           /\ After(call'.tgt).c = 2 * m.c
           /\ \A i \in 0..(m.r - 1) : RowOf(After(call'.tgt), i) = RowOf(m, i) \o RowOf(m, i)
           /\ Len(After(call'.tgt).vals) = m.r * (2 * m.c)]_vars

====
